---- MODULE Spec2Model ----
(***************************************************************************)
(* Model of the computer-use agent (src/computer-use/cua.py):              *)
(*   State   - interpretation of one model response (State.__init__)       *)
(*   Agent   - start_task / continue_task / add_tool and the retry loop    *)
(*   Scaler  - canvas derivation and coordinate translation                *)
(* Texts are modelled as sequences of tokens so that concatenation is a    *)
(* real operation; "" is the empty sequence.                               *)
(***************************************************************************)
EXTENDS Integers, Sequences, FiniteSets, TLC

(***************************************************************************)
(* Bounds                                                                  *)
(***************************************************************************)
\* longest output list of a response handed to the interpreter on its own
MaxItems == 4
\* longest output list of a response the remote service returns to the agent
MaxAgentItems == 2
\* number of responses the remote service produces in one behaviour
MaxResponses == 2
\* widths next to 2048 and to 2215 that a Scaler is constructed on
Spread == 1
\* longest side of the canvases and real screens of the round trip
MaxSide == 4

(***************************************************************************)
(* Program constants                                                       *)
(***************************************************************************)
\* for _ in range(10)
MaxAttempts == 10
\* wait_time = ... if match else 10
DefaultWait == 10
\* max_size = 2048
MaxSize == 2048

(***************************************************************************)
(* Output items of a response (the remote service's vocabulary)            *)
(***************************************************************************)
ClickCall ==
    [type |-> "computer_call", call_id |-> "c1",
     action |-> [type |-> "click", x |-> 10, y |-> 20, button |-> "left"],
     pending_safety_checks |-> <<"sc1", "sc2">>]

DragCall ==
    [type |-> "computer_call", call_id |-> "c2",
     action |-> [type |-> "drag",
                 path |-> <<[x |-> 1, y |-> 2], [x |-> 3, y |-> 4], [x |-> 5, y |-> 6]>>],
     pending_safety_checks |-> <<"sc1", "sc2">>]

WaitCall ==
    [type |-> "computer_call", call_id |-> "c3",
     action |-> [type |-> "wait"],
     pending_safety_checks |-> <<"sc3">>]

Reasoning1 ==
    [type |-> "reasoning", summary |-> <<[text |-> <<"r1">>], [text |-> <<"r2">>]>>]

Reasoning2 ==
    [type |-> "reasoning", summary |-> <<[text |-> <<"r3">>]>>]

Message1 ==
    [type |-> "message", content |-> <<[text |-> <<"m1">>], [text |-> <<"m2">>]>>]

Message2 ==
    [type |-> "message", content |-> <<[text |-> <<"m3">>]>>]

ToolCall1 ==
    [type |-> "function_call", call_id |-> "f1", name |-> "t1",
     arguments |-> <<<<"q", 1>>, <<"q", 2>>>>]

ToolCall2 ==
    [type |-> "function_call", call_id |-> "f2", name |-> "t2",
     arguments |-> <<<<"k", 7>>>>]

OtherItem == [type |-> "web_search_call"]

Items ==
    {ClickCall, DragCall, WaitCall, Reasoning1, Reasoning2, Message1, Message2,
     ToolCall1, ToolCall2, OtherItem}

\* the items the remote service answers the agent with; the computer call is
\* the drag, whose path the Scaler rewrites
AgentItems == {DragCall, Message1, ToolCall1, OtherItem}

Statuses == {"completed", "incomplete"}

RECURSIVE SeqsUpTo(_, _)
SeqsUpTo(S, n) ==
    IF n = 0 THEN {<<>>}
    ELSE LET shorter == SeqsUpTo(S, n - 1)
         IN  shorter \cup {Append(s, e) : s \in {t \in shorter : Len(t) = n - 1}, e \in S}

(***************************************************************************)
(* class State                                                             *)
(***************************************************************************)
NoAttribute == "<unset>"

\* the class-level defaults of State (an instance before __init__ assigns)
StateDefaults ==
    [previous_response_id |-> 0,
     next_action |-> "",
     call_id |-> "",
     computer_action |-> "",
     computer_action_args |-> <<>>,
     pending_safety_checks |-> <<>>,
     reasoning_summary |-> <<>>,
     message |-> <<>>,
     tool_name |-> NoAttribute,
     tool_args |-> <<>>]

\* "".join([entry.text for entry in item.summary])
RECURSIVE JoinTexts(_)
JoinTexts(entries) ==
    IF entries = <<>> THEN <<>>
    ELSE Head(entries).text \o JoinTexts(Tail(entries))

\* json.loads of a JSON object text: a later duplicate key wins
RECURSIVE JsonLoads(_)
JsonLoads(pairs) ==
    IF pairs = <<>> THEN <<>>
    ELSE LET n    == Len(pairs)
             rest == JsonLoads(SubSeq(pairs, 1, n - 1))
             key  == pairs[n][1]
         IN  [k \in (DOMAIN rest) \cup {key} |->
                 IF k = key THEN pairs[n][2] ELSE rest[k]]

\* vars(item.action) | {} followed by .pop("type"), and the path rebuilt for drag
ActionArgs(action) ==
    LET popped == [k \in (DOMAIN action) \ {"type"} |-> action[k]]
    IN  IF action.type = "drag"
        THEN [popped EXCEPT !.path =
                 [i \in 1..Len(action.path) |->
                     [x |-> action.path[i].x, y |-> action.path[i].y]]]
        ELSE popped

KnownTypes == {"computer_call", "reasoning", "message", "function_call"}

\* an iteration in which the first differentiating item fixes next_action
ApplyItemFirstWins(s, item) ==
    LET keep(step) == IF s.next_action = "" THEN step ELSE s.next_action
    IN  CASE item.type = "computer_call" ->
                [s EXCEPT !.next_action = keep("computer_call_output"),
                          !.call_id = item.call_id,
                          !.computer_action_args = ActionArgs(item.action),
                          !.computer_action = item.action.type,
                          !.pending_safety_checks = item.pending_safety_checks]
          [] item.type = "reasoning" ->
                [s EXCEPT !.reasoning_summary = JoinTexts(item.summary)]
          [] item.type = "message" ->
                [s EXCEPT !.next_action = keep("user_interaction"),
                          !.message = s.message \o item.content[Len(item.content)].text]
          [] item.type = "function_call" ->
                [s EXCEPT !.next_action = keep("function_call"),
                          !.call_id = item.call_id,
                          !.tool_name = item.name,
                          !.tool_args = JsonLoads(item.arguments)]

\* an iteration in which a message replaces the text of the earlier ones
ApplyItemKeepingLastMessage(s, item) ==
    CASE item.type = "computer_call" ->
            [s EXCEPT !.next_action = "computer_call_output",
                      !.call_id = item.call_id,
                      !.computer_action_args = ActionArgs(item.action),
                      !.computer_action = item.action.type,
                      !.pending_safety_checks = item.pending_safety_checks]
      [] item.type = "reasoning" ->
            [s EXCEPT !.reasoning_summary = JoinTexts(item.summary)]
      [] item.type = "message" ->
            [s EXCEPT !.next_action = "user_interaction",
                      !.message = item.content[Len(item.content)].text]
      [] item.type = "function_call" ->
            [s EXCEPT !.next_action = "function_call",
                      !.call_id = item.call_id,
                      !.tool_name = item.name,
                      !.tool_args = JsonLoads(item.arguments)]

\* one iteration of the loop over response.output
ApplyItem(s, item) ==
    CASE item.type = "computer_call" ->
            [s EXCEPT !.next_action = "computer_call_output",
                      !.call_id = item.call_id,
                      !.computer_action_args = ActionArgs(item.action),
                      !.computer_action = item.action.type,
                      !.pending_safety_checks = item.pending_safety_checks]
      [] item.type = "reasoning" ->
            [s EXCEPT !.reasoning_summary = JoinTexts(item.summary)]
      [] item.type = "message" ->
            [s EXCEPT !.next_action = "user_interaction",
                      !.message = s.message \o item.content[Len(item.content)].text]
      [] item.type = "function_call" ->
            [s EXCEPT !.next_action = "function_call",
                      !.call_id = item.call_id,
                      !.tool_name = item.name,
                      !.tool_args = JsonLoads(item.arguments)]

\* a loop that skips the kinds it does not know
RECURSIVE ApplyItemsSkipUnknown(_, _)
ApplyItemsSkipUnknown(s, output) ==
    IF output = <<>> THEN [ok |-> TRUE, state |-> s]
    ELSE IF Head(output).type \notin KnownTypes
         THEN ApplyItemsSkipUnknown(s, Tail(output))
         ELSE ApplyItemsSkipUnknown(ApplyItem(s, Head(output)), Tail(output))

\* the loop of State.__init__: a result is a state or the exception raised
RECURSIVE ApplyItems(_, _)
ApplyItems(s, output) ==
    IF output = <<>> THEN [ok |-> TRUE, state |-> s]
    ELSE IF Head(output).type \notin KnownTypes
         THEN [ok |-> FALSE, exc |-> "NotImplementedError"]
         ELSE ApplyItems(ApplyItem(s, Head(output)), Tail(output))

\* State(response)
StateInit(response) ==
    IF response.status # "completed"
    THEN [ok |-> FALSE, exc |-> "AssertionError"]
    ELSE ApplyItems([StateDefaults EXCEPT !.previous_response_id = response.id],
                    response.output)

(***************************************************************************)
(* Python floats (IEEE-754 binary64, round to nearest, ties to even)       *)
(* A finite float is [neg, m, e] with value (-1)^neg * m * 2^e, where m is *)
(* a natural number below 2^53 held in four limbs of 14 bits, least        *)
(* significant first, and 2^52 <= m unless the float is zero.  The ints    *)
(* converted stay below 2^28 in magnitude, so no float overflows or is     *)
(* subnormal; a zero carries no sign (int() does not see it).              *)
(***************************************************************************)
Limb == 16384

\* bit length of a limb-sized natural
RECURSIVE BitLen(_)
BitLen(n) == IF n = 0 THEN 0 ELSE 1 + BitLen(n \div 2)

BigZero == <<0, 0, 0, 0>>

\* a + a
BigDouble(a) ==
    LET d1 == 2 * a[1]
        d2 == 2 * a[2] + d1 \div Limb
        d3 == 2 * a[3] + d2 \div Limb
        d4 == 2 * a[4] + d3 \div Limb
    IN  <<d1 % Limb, d2 % Limb, d3 % Limb, d4>>

\* a >= b
BigGeq(a, b) ==
    IF a[4] # b[4] THEN a[4] > b[4]
    ELSE IF a[3] # b[3] THEN a[3] > b[3]
    ELSE IF a[2] # b[2] THEN a[2] > b[2]
    ELSE a[1] >= b[1]

\* a - b, for a >= b
BigSub(a, b) ==
    LET s1 == a[1] - b[1]
        w1 == IF s1 < 0 THEN 1 ELSE 0
        s2 == a[2] - b[2] - w1
        w2 == IF s2 < 0 THEN 1 ELSE 0
        s3 == a[3] - b[3] - w2
        w3 == IF s3 < 0 THEN 1 ELSE 0
    IN  <<s1 + w1 * Limb, s2 + w2 * Limb, s3 + w3 * Limb, a[4] - b[4] - w3>>

\* a + 1
BigInc(a) ==
    LET s1 == a[1] + 1
        s2 == a[2] + s1 \div Limb
        s3 == a[3] + s2 \div Limb
    IN  <<s1 % Limb, s2 % Limb, s3 % Limb, a[4] + s3 \div Limb>>

\* 2^b for 0 <= b < 14
TwoTo(b) ==
    <<1, 2, 4, 8, 16, 32, 64, 128, 256, 512, 1024, 2048, 4096, 8192>>[b + 1]

\* limb i of a, zero outside the four limbs
LimbAt(a, i) == IF i >= 1 /\ i <= 4 THEN a[i] ELSE 0

\* a * 2^k
BigShiftLeft(a, k) ==
    LET w  == k \div 14
        f  == TwoTo(k % 14)
        t1 == LimbAt(a, 1 - w) * f
        t2 == LimbAt(a, 2 - w) * f + t1 \div Limb
        t3 == LimbAt(a, 3 - w) * f + t2 \div Limb
        t4 == LimbAt(a, 4 - w) * f + t3 \div Limb
    IN  <<t1 % Limb, t2 % Limb, t3 % Limb, t4>>

\* a \div 2^k
BigShiftRight(a, k) ==
    LET w == k \div 14
        f == TwoTo(k % 14)
        g == Limb \div f
    IN  <<LimbAt(a, 1 + w) \div f + (LimbAt(a, 2 + w) % f) * g,
          LimbAt(a, 2 + w) \div f + (LimbAt(a, 3 + w) % f) * g,
          LimbAt(a, 3 + w) \div f + (LimbAt(a, 4 + w) % f) * g,
          LimbAt(a, 4 + w) \div f>>

\* 2^52 and 2^53 in limbs (52 = 3 * 14 + 10)
TwoTo52 == <<0, 0, 0, 1024>>
TwoTo53 == <<0, 0, 0, 2048>>

FloatZero == [neg |-> FALSE, m |-> BigZero, e |-> 0]

\* a mantissa that rounding carried up to 2^53 is renormalised
Normalised(neg, m, e) ==
    IF m = TwoTo53 THEN [neg |-> neg, m |-> TwoTo52, e |-> e + 1]
    ELSE [neg |-> neg, m |-> m, e |-> e]

\* float(n) for an int of magnitude below 2^28: exact
FromInt(n) ==
    IF n = 0 THEN FloatZero
    ELSE LET a == IF n < 0 THEN -n ELSE n
             k == BitLen(a)
         IN  [neg |-> n < 0,
              m |-> BigShiftLeft(<<a % Limb, a \div Limb, 0, 0>>, 53 - k),
              e |-> k - 53]

\* one more quotient bit of r / d: st holds the quotient so far, the
\* remainder and the number of bits still to produce
DivideStep(st, d) ==
    LET r2 == BigDouble(st.r)
        q2 == BigDouble(st.q)
    IN  IF BigGeq(r2, d)
        THEN [q |-> BigInc(q2), r |-> BigSub(r2, d), k |-> st.k - 1]
        ELSE [q |-> q2, r |-> r2, k |-> st.k - 1]

RECURSIVE LongDivide(_, _)
LongDivide(st, d) ==
    IF st.k = 0 THEN st ELSE LongDivide(DivideStep(st, d), d)

\* x / y for a float y # 0 (Python raises ZeroDivisionError on y = 0)
FloatDiv(x, y) ==
    IF x.m = BigZero THEN FloatZero
    ELSE LET big   == BigGeq(x.m, y.m)
             \* the quotient of the mantissas lies in [1, 2) after this shift
             r0    == IF big THEN x.m ELSE BigDouble(x.m)
             e0    == IF big THEN x.e - y.e - 52 ELSE x.e - y.e - 53
             qr    == LongDivide([q |-> <<1, 0, 0, 0>>, r |-> BigSub(r0, y.m),
                                    k |-> 52], y.m)
             q     == qr.q
             twice == BigDouble(qr.r)
             up    == IF twice = y.m THEN q[1] % 2 = 1 ELSE BigGeq(twice, y.m)
         IN  Normalised(x.neg # y.neg, IF up THEN BigInc(q) ELSE q, e0)

\* the product of two four-limb naturals, in eight limbs
BigProduct(a, b) ==
    LET c1 == a[1] * b[1]
        c2 == a[1] * b[2] + a[2] * b[1] + c1 \div Limb
        c3 == a[1] * b[3] + a[2] * b[2] + a[3] * b[1] + c2 \div Limb
        c4 == a[1] * b[4] + a[2] * b[3] + a[3] * b[2] + a[4] * b[1] + c3 \div Limb
        c5 == a[2] * b[4] + a[3] * b[3] + a[4] * b[2] + c4 \div Limb
        c6 == a[3] * b[4] + a[4] * b[3] + c5 \div Limb
        c7 == a[4] * b[4] + c6 \div Limb
    IN  <<c1 % Limb, c2 % Limb, c3 % Limb, c4 % Limb, c5 % Limb, c6 % Limb,
          c7 % Limb, c7 \div Limb>>

\* x * y
FloatMul(x, y) ==
    IF x.m = BigZero \/ y.m = BigZero THEN FloatZero
    ELSE LET p     == BigProduct(x.m, y.m)
             \* p lies in [2^104, 2^106): 7 limbs are 98 bits, 2^105 = 128 * 2^98
             s     == IF p[8] >= 128 THEN 11 ELSE 10
             cut   == IF p[8] >= 128 THEN 2048 ELSE 1024
             keep  == Limb \div cut
             \* p \div 2^(42 + s)
             q     == <<p[4] \div cut + (p[5] % cut) * keep,
                        p[5] \div cut + (p[6] % cut) * keep,
                        p[6] \div cut + (p[7] % cut) * keep,
                        p[7] \div cut + p[8] * keep>>
             top   == p[4] % cut
             low   == p[1] # 0 \/ p[2] # 0 \/ p[3] # 0
             half  == cut \div 2
             up    == IF top = half /\ ~low THEN q[1] % 2 = 1
                      ELSE top >= half
         IN  Normalised(x.neg # y.neg, IF up THEN BigInc(q) ELSE q,
                        x.e + y.e + 42 + s)

\* |x| <= |y|
MagnitudeLeq(x, y) ==
    IF x.m = BigZero THEN TRUE
    ELSE IF y.m = BigZero THEN FALSE
    ELSE IF x.e # y.e THEN x.e < y.e
    ELSE BigGeq(y.m, x.m)

\* x < y
FloatLess(x, y) ==
    IF x.neg /\ ~y.neg THEN TRUE
    ELSE IF ~x.neg /\ y.neg THEN FALSE
    ELSE IF x.neg THEN ~MagnitudeLeq(x, y)
    ELSE ~MagnitudeLeq(y, x)

\* min(x, y): the first argument unless the second is smaller
FloatMin(x, y) == IF FloatLess(y, x) THEN y ELSE x

\* int(x), which truncates toward zero, for a float of magnitude below 2^28
Trunc(x) ==
    IF x.e <= -53 THEN 0
    ELSE LET t == BigShiftRight(x.m, -x.e)
             a == t[1] + Limb * t[2]
         IN  IF x.neg THEN -a ELSE a

(***************************************************************************)
(* class Scaler                                                            *)
(***************************************************************************)
\* dimensions=None
NoDimensions == <<>>

Max(a, b) == IF a >= b THEN a ELSE b

\* Scaler.__init__, lines 62-74: the canvas, from the first screenshot when
\* no dimensions are given
DeriveDimensions(dims, size) ==
    IF dims # NoDimensions THEN dims
    ELSE LET width   == size[1]
             height  == size[2]
             longest == Max(width, height)
         IN  IF longest <= MaxSize THEN <<width, height>>
             ELSE LET scale == FloatDiv(FromInt(MaxSize), FromInt(longest))
                  IN  <<Trunc(FloatMul(FromInt(width), scale)),
                        Trunc(FloatMul(FromInt(height), scale))>>

\* ratio = min(width / self.screen_width, height / self.screen_height)
Ratio(dims, sw, sh) ==
    FloatMin(FloatDiv(FromInt(dims[1]), FromInt(sw)),
             FloatDiv(FromInt(dims[2]), FromInt(sh)))

\* int(self.screen_width * ratio), the scaling of Scaler.screenshot
CaptureScale(n, ratio) == Trunc(FloatMul(FromInt(n), ratio))

\* a translation that multiplies by the ratio where it has to divide
PointToScreenCoordsMultiplying(x, y, dims, sw, sh) ==
    LET ratio == Ratio(dims, sw, sh)
    IN  <<Trunc(FloatMul(FromInt(x), ratio)), Trunc(FloatMul(FromInt(y), ratio))>>

\* x = x / ratio; y = y / ratio; return int(x), int(y)
PointAtRatio(x, y, ratio) ==
    <<Trunc(FloatDiv(FromInt(x), ratio)), Trunc(FloatDiv(FromInt(y), ratio))>>

\* Scaler._point_to_screen_coords
PointToScreenCoords(x, y, dims, sw, sh) == PointAtRatio(x, y, Ratio(dims, sw, sh))

\* the point a path holds: {"x": ..., "y": ...}
PathPoint(xy) == [x |-> xy[1], y |-> xy[2]]

\* a loop that hands the points over last to first
TranslatePathReversed(path, dims, sw, sh) ==
    LET ratio == Ratio(dims, sw, sh)
    IN  [i \in 1..Len(path) |->
            PathPoint(PointAtRatio(path[Len(path) + 1 - i].x,
                                   path[Len(path) + 1 - i].y, ratio))]

\* the loop of Scaler.drag: every point of the path translated, in place
\* (no call changes the sizes, so every point meets the same ratio)
TranslatePath(path, dims, sw, sh) ==
    LET ratio == Ratio(dims, sw, sh)
    IN  [i \in 1..Len(path) |-> PathPoint(PointAtRatio(path[i].x, path[i].y, ratio))]

\* the methods of the Scaler that call an action of the backend
ScalerMethods ==
    {"click", "double_click", "scroll", "type", "wait", "move", "keypress", "drag"}

\* the methods of the Scaler that translate one point, lines 98-110 and 120-122
PointMethods == {"click", "double_click", "scroll", "move"}

\* the call such a method makes on the backend with its translated point
PointCall(name, args, xy) ==
    CASE name = "click" ->
            [op |-> "click", x |-> xy[1], y |-> xy[2],
             button |-> IF "button" \in DOMAIN args THEN args.button ELSE "left"]
      [] name = "double_click" -> [op |-> "double_click", x |-> xy[1], y |-> xy[2]]
      [] name = "scroll" ->
            [op |-> "scroll", x |-> xy[1], y |-> xy[2],
             scroll_x |-> args.scroll_x, scroll_y |-> args.scroll_y]
      [] name = "move" -> [op |-> "move", x |-> xy[1], y |-> xy[2]]

\* the call a method of the Scaler makes on the backend, lines 98-128; args
\* are the keyword arguments of the call, defaults filled in when left out
Delegation(name, args, dims, sw, sh) ==
    CASE name \in PointMethods ->
            PointCall(name, args, PointToScreenCoords(args.x, args.y, dims, sw, sh))
      [] name = "type" -> [op |-> "type", text |-> args.text]
      [] name = "wait" ->
            [op |-> "wait", ms |-> IF "ms" \in DOMAIN args THEN args.ms ELSE 1000]
      [] name = "keypress" -> [op |-> "keypress", keys |-> args.keys]
      [] name = "drag" ->
            [op |-> "drag", path |-> TranslatePath(args.path, dims, sw, sh)]

(***************************************************************************)
(* Variables                                                               *)
(***************************************************************************)
VARIABLES
    \* --- interpreter on its own ---
    response,       \* the response handed to State(...)
    built,          \* the result of State(response), NotBuilt before the call
    \* --- Agent ---
    state,          \* Agent.state (NoState models None)
    tools,          \* Agent.tools, in insertion order
    pc,             \* "idle", "retry" (inside the loop of continue_task), "done"
    op,             \* the operation the caller is in / has just left
    outcome,        \* how that operation ended: "ok", "returned" or the exception
    next_input,     \* local of continue_task
    previous_response_id, \* local of continue_task
    wait_time,      \* local of continue_task
    attempt,        \* iterations of the retry loop started so far
    consumed,       \* the state the running continue_task was called on
    events,         \* what the current call did, in order
    nsleeps,        \* time.sleep calls of the current call
    last_sleep,     \* duration of the most recent time.sleep
    last_error,     \* message of the most recent RateLimitError of the call
    failures,       \* RateLimitErrors raised to the current call
    last_response,  \* the most recent response the service returned
    completed_ids,  \* ids of the responses a State was built from, in order
    next_id,        \* the service: id of the next response
    screen,         \* the backend: what is on the screen
    \* --- Scaler ---
    real,           \* the backend: size of the real screen
    given,          \* the dimensions argument of Scaler(...)
    first_real,     \* size of the real screen when the Scaler was constructed
    dimensions,     \* Scaler.dimensions, the canvas
    screen_width,   \* Scaler.screen_width
    screen_height,  \* Scaler.screen_height
    resized,        \* size of the resized image of the last Scaler.screenshot
    delegated,      \* the calls the last action method made on the backend
    captured,       \* size of the most recent screenshot taken from the backend
    called,         \* the last action method called on the Scaler, with arguments
    \* --- round trip of a point on its own ---
    rt_in,          \* canvas, real screen and a point of the real screen
    rt_out          \* the point in canvas space and back on the real screen

interpVars == <<response, built>>
agentVars == <<state, tools, pc, op, outcome, next_input, previous_response_id,
               wait_time, attempt, consumed, events, nsleeps, last_sleep,
               last_error, failures, last_response, completed_ids, next_id, screen>>
scalerVars == <<real, given, first_real, dimensions, screen_width, screen_height,
                resized, delegated, captured, called>>
roundTripVars == <<rt_in, rt_out>>
vars == <<interpVars, agentVars, scalerVars, roundTripVars>>

NotBuilt == [ok |-> FALSE, exc |-> "not called"]
NoState == [none |-> TRUE]
NoInput == [type |-> "none"]
NoResponse == [id |-> 0, status |-> "none", output |-> <<>>]
NoError == <<>>
NoSize == <<>>
NoCall == <<>>
NotComputed == [computed |-> FALSE]


(***************************************************************************)
(* The environment of the agent                                            *)
(***************************************************************************)
ToolNames == {"t1", "t2"}
ToolVersions == {1, 2}
\* the tools the caller registers: the one the service asks for has two versions
ToolsOffered == {nv \in ToolNames \X ToolVersions : nv[1] = "t1" \/ nv[2] = 1}
UserMessages == {<<"hi">>}

\* texts of openai.RateLimitError.message, as tokens
RetryPhrase == "Please try again in "
RateLimitMessages ==
    {<<"Rate limit reached. ", RetryPhrase, "3", "s.">>,
     <<RetryPhrase, "20", "ms.">>}

\* int() of a run of decimal digits
DecimalValue(tok) ==
    CASE tok = "3" -> 3
      [] tok = "20" -> 20

IsDigits(tok) == tok \in {"3", "20"}

\* the unit right after the digits must start with the letter s
StartsWithS(tok) == tok \in {"s", "s."}

\* a parser that never finds the hint
ParseWaitNoHint(msg) == DefaultWait

\* re.search(r"Please try again in (\d+)s", e.message) and the default
ParseWait(msg) ==
    LET hits == {i \in 1..Len(msg) :
                    /\ msg[i] = RetryPhrase
                    /\ i + 2 <= Len(msg)
                    /\ IsDigits(msg[i + 1])
                    /\ StartsWithS(msg[i + 2])}
    IN  IF hits = {} THEN DefaultWait
        ELSE DecimalValue(msg[(CHOOSE i \in hits : \A j \in hits : i <= j) + 1])

\* what the remote service may answer with
AgentResponses(id) ==
    [id : {id}, status : {"completed"}, output : SeqsUpTo(AgentItems, MaxAgentItems)]
    \cup [id : {id}, status : Statuses \ {"completed"}, output : {<<>>, <<Message1>>}]

(***************************************************************************)
(* class Agent                                                             *)
(***************************************************************************)
\* Agent.computer_tool
ComputerTool ==
    [type |-> "computer_use_preview", display_width |-> dimensions[1],
     display_height |-> dimensions[2], environment |-> "linux"]

\* Agent.get_tools
GetTools(reg) == <<ComputerTool>> \o [i \in 1..Len(reg) |-> reg[i].tool]

\* self.tool_name in self.tools
Registered(reg, name) == \E i \in 1..Len(reg) : reg[i].name = name

\* self.tools[name]
Lookup(reg, name) == reg[CHOOSE i \in 1..Len(reg) : reg[i].name = name]

\* a registry that moves a name registered again to the end
SetToolMovingToEnd(reg, entry) ==
    Append(SelectSeq(reg, LAMBDA e : e.name # entry.name), entry)

\* self.tools[name] = (tool, func): a dict keeps the position of an existing key
SetTool(reg, entry) ==
    IF Registered(reg, entry.name)
    THEN [i \in 1..Len(reg) |-> IF reg[i].name = entry.name THEN entry ELSE reg[i]]
    ELSE Append(reg, entry)

\* json.dumps(result)
JsonDumps(result) == <<"json", result>>

\* the keyword arguments of client.responses.create in start_task
StartRequest(user_message, reg) ==
    [kind |-> "request", input |-> user_message, has_previous |-> FALSE,
     previous_response_id |-> 0, tools |-> GetTools(reg),
     reasoning |-> "", truncation |-> "auto"]

\* a request that leaves the continuation id out
ContinueRequestUnchained(input, prev, reg) ==
    [kind |-> "request", input |-> <<input>>, has_previous |-> FALSE,
     previous_response_id |-> 0, tools |-> GetTools(reg),
     reasoning |-> "concise", truncation |-> "auto"]

\* the keyword arguments of client.responses.create in continue_task
ContinueRequest(input, prev, reg) ==
    [kind |-> "request", input |-> <<input>>, has_previous |-> TRUE,
     previous_response_id |-> prev, tools |-> GetTools(reg),
     reasoning |-> "concise", truncation |-> "auto"]

\* the caller is between two calls: nothing of the last call is left
Cleared ==
    /\ pc' = "idle"
    /\ op' = "none"
    /\ outcome' = "none"
    /\ next_input' = NoInput
    /\ previous_response_id' = 0
    /\ wait_time' = 0
    /\ attempt' = 0
    /\ consumed' = NoState
    /\ events' = <<>>
    /\ nsleeps' = 0
    /\ last_sleep' = 0
    /\ last_error' = NoError
    /\ failures' = 0
    /\ last_response' = NoResponse

\* Agent.__init__, and the caller about to make its first call
InitAgent ==
    /\ state = NoState
    /\ tools = <<>>
    /\ pc = "idle"
    /\ op = "none"
    /\ outcome = "none"
    /\ next_input = NoInput
    /\ previous_response_id = 0
    /\ wait_time = 0
    /\ attempt = 0
    /\ consumed = NoState
    /\ events = <<>>
    /\ nsleeps = 0
    /\ last_sleep = 0
    /\ last_error = NoError
    /\ failures = 0
    /\ last_response = NoResponse
    /\ completed_ids = <<>>
    /\ next_id = 1
    /\ screen = <<"blank">>

\* Agent.add_tool
AddTool ==
    /\ pc = "idle"
    /\ \E nv \in ToolsOffered :
          /\ tools' = SetTool(tools, [name |-> nv[1],
                                      tool |-> [name |-> nv[1], version |-> nv[2]],
                                      func |-> nv[2]])
          /\ events' = <<[kind |-> "registered", name |-> nv[1], version |-> nv[2],
                          replaced |-> Registered(tools, nv[1])]>>
    /\ pc' = "done"
    /\ op' = "add_tool"
    /\ outcome' = "ok"
    /\ UNCHANGED <<state, next_input, previous_response_id,
                   wait_time, attempt, consumed, nsleeps, last_sleep,
                   last_error, failures, last_response, completed_ids, next_id,
                   screen>>

\* Agent.start_task, the service answering with a response
StartTaskResponse ==
    /\ pc = "idle"
    /\ next_id <= MaxResponses
    /\ \E um \in UserMessages, r \in AgentResponses(next_id) :
          LET res == StateInit(r)
          IN  /\ events' = <<StartRequest(um, tools)>>
              /\ last_response' = r
              /\ IF res.ok
                 THEN /\ state' = res.state
                      /\ outcome' = "ok"
                      /\ completed_ids' = Append(completed_ids, r.id)
                 ELSE /\ outcome' = res.exc
                      /\ UNCHANGED <<state, completed_ids>>
    /\ next_id' = next_id + 1
    /\ pc' = "done"
    /\ op' = "start_task"
    /\ UNCHANGED <<tools, next_input, previous_response_id, wait_time, attempt,
                   consumed, nsleeps, last_sleep, last_error, failures, screen>>

\* Agent.start_task, the service refusing with a rate-limit error: not caught
StartTaskRateLimited ==
    /\ pc = "idle"
    /\ \E um \in UserMessages, msg \in RateLimitMessages :
          /\ events' = <<StartRequest(um, tools)>>
          /\ last_error' = msg
    /\ failures' = 1
    /\ outcome' = "RateLimitError"
    /\ pc' = "done"
    /\ op' = "start_task"
    /\ UNCHANGED <<state, tools, next_input, previous_response_id, wait_time,
                   attempt, consumed, nsleeps, last_sleep, last_response,
                   completed_ids, next_id, screen>>


\* getattr(self.computer, action)(**action_args): what the backend shows next
ScreenAfter(action, args) == <<action, args>>

\* f"data:image/png;base64,{screenshot}"
ImageUrl(shot) == <<"data:image/png;base64,", shot>>

\* an item that acknowledges nothing
ComputerCallOutputNoAck(st, shot) ==
    [type |-> "computer_call_output",
     call_id |-> st.call_id,
     output |-> [type |-> "computer_screenshot", image_url |-> ImageUrl(shot)],
     acknowledged_safety_checks |-> <<>>]

\* the ComputerCallOutput item of lines 200-208
ComputerCallOutput(st, shot) ==
    [type |-> "computer_call_output",
     call_id |-> st.call_id,
     output |-> [type |-> "computer_screenshot", image_url |-> ImageUrl(shot)],
     acknowledged_safety_checks |-> st.pending_safety_checks]

\* a tool result sent as the output of a computer call
FunctionCallOutputOfComputerKind(st, result) ==
    [type |-> "computer_call_output",
     call_id |-> st.call_id,
     output |-> JsonDumps(result)]

\* the FunctionCallOutput item of lines 214-218
FunctionCallOutput(st, result) ==
    [type |-> "function_call_output",
     call_id |-> st.call_id,
     output |-> JsonDumps(result)]

\* the Message item of lines 220-222
UserMessageInput(user_message) == [role |-> "user", content |-> user_message]

\* the state after Scaler.drag has rewritten the points of its path in place:
\* the list handed to the method is the one the state holds
AfterMethod(st) ==
    IF st.computer_action = "drag"
    THEN [st EXCEPT !.computer_action_args.path =
             TranslatePath(st.computer_action_args.path, dimensions,
                           screen_width, screen_height)]
    ELSE st

\* continue_task, lines 188-224, on a state asking for a computer action; the
\* computer of the agent is the Scaler (main.py, lines 49-52)
ContinueComputerCall ==
    /\ pc = "idle"
    /\ state # NoState
    /\ state.next_action = "computer_call_output"
    /\ called' = <<[name |-> state.computer_action, args |-> state.computer_action_args]>>
    /\ delegated' = <<Delegation(state.computer_action, state.computer_action_args,
                                 dimensions, screen_width, screen_height)>>
    /\ \E backend_ok \in BOOLEAN :
          LET act  == [kind |-> "action", name |-> state.computer_action,
                       args |-> state.computer_action_args]
              shot == ScreenAfter(state.computer_action, state.computer_action_args)
          IN  IF backend_ok
              THEN /\ screen' = shot
                   /\ events' = <<act, [kind |-> "screenshot", image |-> shot]>>
                   /\ next_input' = ComputerCallOutput(state, shot)
                   /\ previous_response_id' = state.previous_response_id
                   /\ consumed' = state
                   /\ state' = NoState
                   /\ pc' = "retry"
                   /\ outcome' = "running"
                   /\ screen_width' = real[1]
                   /\ screen_height' = real[2]
                   /\ LET ratio == Ratio(dimensions, real[1], real[2])
                      IN  resized' = <<CaptureScale(real[1], ratio),
                                       CaptureScale(real[2], ratio)>>
                   /\ captured' = real
              ELSE /\ events' = <<act>>
                   /\ consumed' = state
                   /\ previous_response_id' = state.previous_response_id
                   /\ pc' = "done"
                   /\ outcome' = "BackendError"
                   /\ state' = AfterMethod(state)
                   /\ UNCHANGED <<next_input, screen, screen_width, screen_height,
                                  resized, captured>>
    /\ op' = "continue_task"
    /\ wait_time' = 0
    /\ UNCHANGED <<tools, attempt, nsleeps, last_sleep, last_error, failures,
                   last_response, completed_ids, next_id>>
    /\ UNCHANGED <<real, given, first_real, dimensions>>

\* no membership test: the lookup of line 212 raises instead
RaiseKeyError ==
    /\ pc' = "done"
    /\ outcome' = "KeyError"
    /\ UNCHANGED <<state, next_input, events>>

\* raise ValueError(f"Unsupported tool ..."), lines 210-211
RaiseUnknownTool ==
    /\ pc' = "done"
    /\ outcome' = "ValueError"
    /\ UNCHANGED <<state, next_input, events>>

\* continue_task, lines 188-224, on a state asking for a registered tool
ContinueFunctionCall ==
    /\ pc = "idle"
    /\ state # NoState
    /\ state.next_action = "function_call"
    /\ consumed' = state
    /\ previous_response_id' = state.previous_response_id
    /\ IF ~Registered(tools, state.tool_name)
       THEN RaiseUnknownTool
       ELSE \E tool_ok \in BOOLEAN :
               LET entry  == Lookup(tools, state.tool_name)
                   call   == [kind |-> "tool", name |-> entry.name,
                              func |-> entry.func, args |-> state.tool_args]
                   result == [tool |-> entry.name, func |-> entry.func,
                              args |-> state.tool_args]
               IN  /\ events' = <<call>>
                   /\ IF tool_ok
                      THEN /\ next_input' = FunctionCallOutput(state, result)
                           /\ state' = NoState
                           /\ pc' = "retry"
                           /\ outcome' = "running"
                      ELSE /\ pc' = "done"
                           /\ outcome' = "ToolError"
                           /\ UNCHANGED <<state, next_input>>
    /\ op' = "continue_task"
    /\ wait_time' = 0
    /\ UNCHANGED <<tools, attempt, nsleeps, last_sleep, last_error, failures,
                   last_response, completed_ids, next_id, screen>>

\* continue_task, lines 188-224, on any other state: a user message goes out
ContinueUserMessage ==
    /\ pc = "idle"
    /\ state # NoState
    /\ state.next_action \notin {"computer_call_output", "function_call"}
    /\ \E um \in UserMessages :
          next_input' = UserMessageInput(um)
    /\ consumed' = state
    /\ previous_response_id' = state.previous_response_id
    /\ state' = NoState
    /\ pc' = "retry"
    /\ op' = "continue_task"
    /\ outcome' = "running"
    /\ wait_time' = 0
    /\ UNCHANGED <<tools, attempt, events, nsleeps, last_sleep, last_error,
                   failures, last_response, completed_ids, next_id, screen>>

\* a call that returns when there is no state
ContinueWithoutStateReturning ==
    /\ pc = "idle"
    /\ state = NoState
    /\ pc' = "done"
    /\ op' = "continue_task"
    /\ outcome' = "returned"
    /\ UNCHANGED <<state, tools, next_input, previous_response_id, wait_time,
                   attempt, consumed, events, nsleeps, last_sleep, last_error,
                   failures, last_response, completed_ids, next_id, screen>>

\* continue_task with self.state = None: line 190 fails
ContinueWithoutState ==
    /\ pc = "idle"
    /\ state = NoState
    /\ pc' = "done"
    /\ op' = "continue_task"
    /\ outcome' = "AttributeError"
    /\ UNCHANGED <<state, tools, next_input, previous_response_id, wait_time,
                   attempt, consumed, events, nsleeps, last_sleep, last_error,
                   failures, last_response, completed_ids, next_id, screen>>

\* an iteration that captures the screen again before it retries
IterationRepeatingStep ==
    /\ pc = "retry"
    /\ attempt < MaxAttempts
    /\ attempt' = attempt + 1
    /\ nsleeps' = nsleeps + 1
    /\ last_sleep' = wait_time
    /\ events' = IF attempt = 0
                 THEN Append(events, ContinueRequest(next_input, previous_response_id, tools))
                 ELSE events \o <<[kind |-> "screenshot", image |-> screen],
                                  ContinueRequest(next_input, previous_response_id, tools)>>

\* the properties of the Agent that read self.state, lines 168-186
PropertyNames ==
    {"requires_user_input", "requires_consent", "pending_safety_checks",
     "reasoning_summary", "message"}

\* the value of a property on a state
PropertyValue(st, name) ==
    CASE name = "requires_user_input" -> st.next_action = "user_interaction"
      [] name = "requires_consent" -> st.next_action = "computer_call_output"
      [] name = "pending_safety_checks" -> st.pending_safety_checks
      [] name = "reasoning_summary" -> st.reasoning_summary
      [] name = "message" -> st.message

\* the caller reads a property: self.state.<attribute> fails on None
ReadProperty ==
    /\ pc = "idle"
    /\ \E name \in PropertyNames :
          /\ op' = name
          /\ IF state = NoState
             THEN /\ outcome' = "AttributeError"
                  /\ events' = <<>>
             ELSE /\ outcome' = "ok"
                  /\ events' = <<[kind |-> "value", value |-> PropertyValue(state, name)]>>
    /\ pc' = "done"
    /\ UNCHANGED <<state, tools, next_input, previous_response_id, wait_time,
                   attempt, consumed, nsleeps, last_sleep, last_error,
                   failures, last_response, completed_ids, next_id, screen>>

\* the start of one iteration of the loop: time.sleep, then the request
Iteration ==
    /\ pc = "retry"
    /\ attempt < MaxAttempts
    /\ attempt' = attempt + 1
    /\ nsleeps' = nsleeps + 1
    /\ last_sleep' = wait_time
    /\ events' = Append(events, ContinueRequest(next_input, previous_response_id, tools))

\* an iteration whose State starts from the attributes of the state before it
AttemptResponseCarrying ==
    /\ Iteration
    /\ next_id <= MaxResponses
    /\ \E r \in AgentResponses(next_id) :
          LET res == IF r.status # "completed"
                     THEN [ok |-> FALSE, exc |-> "AssertionError"]
                     ELSE ApplyItems([consumed EXCEPT !.previous_response_id = r.id],
                                     r.output)
          IN  /\ last_response' = r
              /\ IF res.ok
                 THEN /\ state' = res.state
                      /\ outcome' = "ok"
                      /\ completed_ids' = Append(completed_ids, r.id)
                 ELSE /\ outcome' = res.exc
                      /\ UNCHANGED <<state, completed_ids>>
    /\ next_id' = next_id + 1
    /\ pc' = "done"
    /\ UNCHANGED <<tools, op, next_input, previous_response_id, wait_time,
                   consumed, last_error, failures, screen>>

\* one iteration, lines 225-237: the service answers with a response
AttemptResponse ==
    /\ Iteration
    /\ next_id <= MaxResponses
    /\ \E r \in AgentResponses(next_id) :
          LET res == StateInit(r)
          IN  /\ last_response' = r
              /\ IF res.ok
                 THEN /\ state' = res.state
                      /\ outcome' = "ok"
                      /\ completed_ids' = Append(completed_ids, r.id)
                 ELSE /\ outcome' = res.exc
                      /\ UNCHANGED <<state, completed_ids>>
    /\ next_id' = next_id + 1
    /\ pc' = "done"
    /\ UNCHANGED <<tools, op, next_input, previous_response_id, wait_time,
                   consumed, last_error, failures, screen>>

\* the loop ends by re-raising the last error
GiveUpRaising ==
    /\ pc' = "done"
    /\ outcome' = "RateLimitError"

\* line 242 and the return that follows it
GiveUp ==
    /\ pc' = "done"
    /\ outcome' = "returned"

\* one iteration, lines 225-242: the service refuses with a rate-limit error;
\* the tenth refusal ends the loop and the call returns
AttemptRateLimited ==
    /\ Iteration
    /\ \E msg \in RateLimitMessages :
          /\ last_error' = msg
          /\ wait_time' = ParseWait(msg)
    /\ failures' = failures + 1
    /\ IF attempt + 1 < MaxAttempts
       THEN UNCHANGED <<pc, outcome>>
       ELSE GiveUp
    /\ UNCHANGED <<state, tools, op, next_input, previous_response_id, consumed,
                   last_response, completed_ids, next_id, screen>>

\* the caller has the result of the call and goes on (main.py, lines 61-72)
Return ==
    /\ pc = "done"
    /\ Cleared
    /\ UNCHANGED <<state, tools, completed_ids, next_id, screen>>

InitInterp ==
    /\ response = NoResponse
    /\ built = NotBuilt

\* the responses handed to State(...) on its own
InterpResponses ==
    [id : {1}, status : Statuses, output : SeqsUpTo(Items, MaxItems)]

\* any response, about to be interpreted
InitResponse ==
    /\ response \in InterpResponses
    /\ built = NotBuilt

\* State(response)
Interpret ==
    /\ built = NotBuilt
    /\ built' = StateInit(response)
    /\ UNCHANGED response

(***************************************************************************)
(* Scaler: construction and operations                                     *)
(***************************************************************************)
Widths ==
    {3840} \cup ((MaxSize - Spread)..(MaxSize + Spread))
           \cup ((2215 - Spread)..(2215 + Spread))
Heights == {1080, 2160}

\* the real screens a Scaler is constructed on
ConstructionSizes == {<<w, h>> : w \in Widths, h \in Heights}

\* the resolutions the backend may switch to later
ResolutionChanges == {<<1024, 768>>}

\* explicit dimensions arguments, and the real screens they are used on
ExplicitDimensions == {<<1024, 768>>, <<512, 512>>}
ExplicitScreens == {<<1920, 1080>>}

\* the positions the model asks to click
LogicalPoints == {<<0, 0>>, <<10, 20>>, <<511, 383>>}

\* the positions of the other pointer methods
OtherPoints == {<<300, 200>>}

\* the paths a State holds for the drag calls of the vocabulary
DragPaths == {ActionArgs(DragCall.action).path}

\* arguments of the methods that carry no position
TypedTexts == {<<"abc">>}
WaitArgs == {<<>>, [ms |-> 250]}
KeyLists == {<<"ctrl", "c">>}

\* Scaler.__init__ on a backend whose screen has the given size
ScalerConstructed(dims, size) ==
    /\ real = size
    /\ given = dims
    /\ first_real = size
    /\ dimensions = DeriveDimensions(dims, size)
    /\ screen_width = -1
    /\ screen_height = -1
    /\ resized = NoSize
    /\ delegated = NoCall
    /\ captured = IF dims = NoDimensions THEN size ELSE NoSize
    /\ called = NoCall

\* the Scaler of main.py, line 49, on a 1024 x 768 screen
InitScaler == ScalerConstructed(NoDimensions, <<1024, 768>>)

\* any Scaler of the bounded inputs
InitAnyScaler ==
    \/ \E size \in ConstructionSizes : ScalerConstructed(NoDimensions, size)
    \/ \E dims \in ExplicitDimensions, size \in ExplicitScreens :
          ScalerConstructed(dims, size)

\* Scaler.screenshot
Screenshot ==
    /\ screen_width' = real[1]
    /\ screen_height' = real[2]
    /\ LET ratio == Ratio(dimensions, real[1], real[2])
       IN  resized' = <<CaptureScale(real[1], ratio), CaptureScale(real[2], ratio)>>
    /\ captured' = real
    /\ UNCHANGED <<real, given, first_real, dimensions, delegated, called>>

\* the backend switches to another resolution
ChangeResolution ==
    /\ \E size \in ResolutionChanges : real' = size /\ size # real
    /\ UNCHANGED <<given, first_real, dimensions, screen_width, screen_height,
                   resized, delegated, captured, called>>

\* a method of the Scaler called with the given keyword arguments
ScalerCall(name, args) ==
    /\ called' = <<[name |-> name, args |-> args]>>
    /\ delegated' = <<Delegation(name, args, dimensions, screen_width, screen_height)>>
    /\ UNCHANGED <<real, given, first_real, dimensions, screen_width,
                   screen_height, resized, captured>>

\* Scaler.click
Click ==
    \E pt \in LogicalPoints :
        ScalerCall("click", [x |-> pt[1], y |-> pt[2], button |-> "left"])

\* Scaler.double_click
DoubleClick ==
    \E pt \in OtherPoints : ScalerCall("double_click", [x |-> pt[1], y |-> pt[2]])

\* Scaler.scroll
Scroll ==
    \E pt \in OtherPoints :
        ScalerCall("scroll", [x |-> pt[1], y |-> pt[2], scroll_x |-> 0, scroll_y |-> -3])

\* Scaler.move
Move ==
    \E pt \in OtherPoints : ScalerCall("move", [x |-> pt[1], y |-> pt[2]])

\* Scaler.drag, on the path a State holds for a drag call
Drag ==
    \E path \in DragPaths : ScalerCall("drag", [path |-> path])

\* Scaler.type
Type ==
    \E text \in TypedTexts : ScalerCall("type", [text |-> text])

\* Scaler.wait
Wait ==
    \E args \in WaitArgs : ScalerCall("wait", args)

\* Scaler.keypress
Keypress ==
    \E keys \in KeyLists : ScalerCall("keypress", [keys |-> keys])

(***************************************************************************)
(* The round trip of a point: capture-side scaling, then translation back  *)
(***************************************************************************)
InitRoundTrip ==
    /\ rt_in = [canvas |-> <<1, 1>>, real |-> <<1, 1>>, point |-> <<0, 0>>]
    /\ rt_out = NotComputed

\* any canvas, any real screen, any point of that screen
InitAnyRoundTrip ==
    /\ \E cw \in 1..MaxSide, ch \in 1..MaxSide, rw \in 1..MaxSide, rh \in 1..MaxSide :
          \E px \in 0..(rw - 1), py \in 0..(rh - 1) :
             rt_in = [canvas |-> <<cw, ch>>, real |-> <<rw, rh>>, point |-> <<px, py>>]
    /\ rt_out = NotComputed

\* the point as it lies in the screenshot (lines 85-87), then
\* _point_to_screen_coords on it (lines 137-142)
RoundTrip ==
    /\ rt_out = NotComputed
    /\ LET ratio   == Ratio(rt_in.canvas, rt_in.real[1], rt_in.real[2])
           logical == <<CaptureScale(rt_in.point[1], ratio),
                        CaptureScale(rt_in.point[2], ratio)>>
       IN  rt_out' = [computed |-> TRUE,
                      logical |-> logical,
                      back |-> PointToScreenCoords(logical[1], logical[2],
                                                   rt_in.canvas,
                                                   rt_in.real[1], rt_in.real[2])]
    /\ UNCHANGED rt_in

Init ==
    /\ InitAgent
    /\ InitInterp
    /\ InitScaler
    /\ InitRoundTrip

Next ==
    \/ (AddTool /\ UNCHANGED <<interpVars, scalerVars, roundTripVars>>)
    \/ (StartTaskResponse /\ UNCHANGED <<interpVars, scalerVars, roundTripVars>>)
    \/ (StartTaskRateLimited /\ UNCHANGED <<interpVars, scalerVars, roundTripVars>>)
    \/ (ContinueComputerCall /\ UNCHANGED <<interpVars, roundTripVars>>)
    \/ (ContinueFunctionCall /\ UNCHANGED <<interpVars, scalerVars, roundTripVars>>)
    \/ (ContinueUserMessage /\ UNCHANGED <<interpVars, scalerVars, roundTripVars>>)
    \/ (ContinueWithoutState /\ UNCHANGED <<interpVars, scalerVars, roundTripVars>>)
    \/ (ReadProperty /\ UNCHANGED <<interpVars, scalerVars, roundTripVars>>)
    \/ (AttemptResponse /\ UNCHANGED <<interpVars, scalerVars, roundTripVars>>)
    \/ (AttemptRateLimited /\ UNCHANGED <<interpVars, scalerVars, roundTripVars>>)
    \/ (Return /\ UNCHANGED <<interpVars, scalerVars, roundTripVars>>)

Spec == Init /\ [][Next]_vars

\* the interpreter alone, on every response of the bounded vocabulary
InterpInit ==
    /\ InitAgent
    /\ InitResponse
    /\ InitScaler
    /\ InitRoundTrip

InterpNext == Interpret /\ UNCHANGED <<agentVars, scalerVars, roundTripVars>>

InterpSpec == InterpInit /\ [][InterpNext]_vars

\* the Scaler alone, constructed on every screen of the bounded inputs
ScalerInit ==
    /\ InitAgent
    /\ InitInterp
    /\ InitAnyScaler
    /\ InitRoundTrip

ScalerNext ==
    \/ (Screenshot /\ UNCHANGED <<agentVars, interpVars, roundTripVars>>)
    \/ (ChangeResolution /\ UNCHANGED <<agentVars, interpVars, roundTripVars>>)
    \/ (Click /\ UNCHANGED <<agentVars, interpVars, roundTripVars>>)
    \/ (DoubleClick /\ UNCHANGED <<agentVars, interpVars, roundTripVars>>)
    \/ (Scroll /\ UNCHANGED <<agentVars, interpVars, roundTripVars>>)
    \/ (Move /\ UNCHANGED <<agentVars, interpVars, roundTripVars>>)
    \/ (Drag /\ UNCHANGED <<agentVars, interpVars, roundTripVars>>)
    \/ (Type /\ UNCHANGED <<agentVars, interpVars, roundTripVars>>)
    \/ (Wait /\ UNCHANGED <<agentVars, interpVars, roundTripVars>>)
    \/ (Keypress /\ UNCHANGED <<agentVars, interpVars, roundTripVars>>)

ScalerSpec == ScalerInit /\ [][ScalerNext]_vars

\* the round trip alone, on every point of the bounded inputs
RoundTripInit ==
    /\ InitAgent
    /\ InitInterp
    /\ InitScaler
    /\ InitAnyRoundTrip

RoundTripNext == RoundTrip /\ UNCHANGED <<agentVars, interpVars, scalerVars>>

RoundTripSpec == RoundTripInit /\ [][RoundTripNext]_vars


(***************************************************************************)
(* Properties                                                              *)
(***************************************************************************)
\* the completion requests of the current call, in order
Requests == SelectSeq(events, LAMBDA e : e.kind = "request")

\* the seconds a rate-limit message suggests, 10 when it suggests none
C1_Suggested(msg) ==
    IF msg = <<"Rate limit reached. ", RetryPhrase, "3", "s.">> THEN 3 ELSE 10

\* C1: when the first k attempts of continue_task are rate limited and attempt
\* k+1 succeeds, k+1 requests were issued, the loop slept k times after a
\* failure (time.sleep is called k+1 times, the first time with 0 seconds,
\* before the first request), every such sleep lasted what the preceding error
\* suggested (10 seconds without a suggestion), and the agent holds the state
\* built from the successful response.
C1_RetryThenSuccess ==
    /\ [](pc = "done" /\ op = "continue_task" /\ outcome = "ok" =>
            /\ failures \in 0..9
            /\ attempt = failures + 1
            /\ Len(Requests) = failures + 1
            /\ nsleeps - 1 = failures
            /\ state # NoState
            /\ last_response.status = "completed"
            /\ state.previous_response_id = last_response.id
            /\ state = StateInit(last_response).state)
    /\ [][nsleeps' = nsleeps + 1 =>
            last_sleep' = IF failures = 0 THEN 0 ELSE C1_Suggested(last_error)]_vars

C1_Witness ==
    /\ pc = "done" /\ op = "continue_task" /\ outcome = "ok"
    /\ failures = 3
    /\ last_sleep = 3

\* C2: when every attempt of a continue_task call is rate limited, the call
\* ends after exactly 10 requests, returns without an exception and leaves the
\* agent without a state; the loop never starts an eleventh attempt.
C2_ExhaustedRetries ==
    /\ Len(Requests) <= 10
    /\ (pc = "retry" => attempt < 10 /\ Len(Requests) = attempt)
    /\ (pc = "done" /\ op = "continue_task" /\ failures >= 1 /\ failures = attempt =>
            /\ attempt = 10
            /\ Len(Requests) = 10
            /\ outcome = "returned"
            /\ state = NoState)

C2_Witness ==
    /\ pc = "done" /\ op = "continue_task" /\ outcome = "returned"
    /\ failures = 10
    /\ state = NoState

\* C3: continue_task on a state that asks for a tool missing from the registry
\* fails with the unknown-tool error (ValueError) before any completion
\* request, tool executor or backend action.
C3_UnknownTool ==
    (/\ op = "continue_task"
     /\ consumed # NoState
     /\ consumed.next_action = "function_call"
     /\ ~ \E i \in 1..Len(tools) : tools[i].name = consumed.tool_name)
    => /\ pc = "done"
       /\ outcome = "ValueError"
       /\ events = <<>>
       /\ attempt = 0

C3_Witness ==
    /\ pc = "done" /\ op = "continue_task" /\ outcome = "ValueError"
    /\ consumed.tool_name = "t1"
    /\ tools # <<>>
    /\ events = <<>>

\* a response the interpreter must reject
C4_Bad(r) ==
    \/ r.status # "completed"
    \/ \E i \in 1..Len(r.output) :
          r.output[i].type \notin {"computer_call", "reasoning", "message", "function_call"}

\* C4: in start_task and in continue_task, a response that is not completed or
\* holds an item of an unsupported kind (at any position) ends the call with
\* the failure: the call is over, the failure is not counted as a rate-limit
\* failure and not retried, and the agent's state is not one built from that
\* response.
C4_ProtocolViolation ==
    (last_response # NoResponse /\ C4_Bad(last_response))
    => /\ pc = "done"
       /\ outcome = IF last_response.status # "completed"
                    THEN "AssertionError" ELSE "NotImplementedError"
       /\ (state = NoState \/ state.previous_response_id # last_response.id)
       /\ \A i \in 1..Len(completed_ids) : completed_ids[i] # last_response.id
       /\ (op = "start_task" => Len(Requests) = 1)
       /\ (op = "continue_task" => Len(Requests) = failures + 1 /\ state = NoState)

C4_Witness ==
    /\ pc = "done" /\ op = "continue_task" /\ outcome = "NotImplementedError"
    /\ failures = 1
    /\ last_response.output = <<Message1, OtherItem>>

\* the position of the last item that fixes the next step, 0 without one
C5_LastDifferentiating(output) ==
    LET I == {i \in 1..Len(output) :
                 output[i].type \in {"computer_call", "message", "function_call"}}
    IN  IF I = {} THEN 0 ELSE CHOOSE i \in I : \A j \in I : j <= i

C5_StepOf(type) ==
    CASE type = "computer_call" -> "computer_call_output"
      [] type = "message" -> "user_interaction"
      [] type = "function_call" -> "function_call"

\* C5: the next step of a state built from a completed response is the step of
\* the last computer_call, message or function_call item, whatever precedes
\* it, and idle ("") without such an item; a single message gives
\* user_interaction with the text of its last content fragment as message; the
\* single click call gives computer_call_output with the name click and the
\* arguments x, y, button of the item.
C5_NextStep ==
    (built # NotBuilt /\ built.ok) =>
        LET o == response.output
            i == C5_LastDifferentiating(o)
        IN  /\ built.state.next_action = IF i = 0 THEN "" ELSE C5_StepOf(o[i].type)
            /\ (Len(o) = 1 /\ o[1].type = "message" =>
                    /\ built.state.next_action = "user_interaction"
                    /\ built.state.message = o[1].content[Len(o[1].content)].text)
            /\ (o = <<ClickCall>> =>
                    /\ built.state.next_action = "computer_call_output"
                    /\ built.state.computer_action = "click"
                    /\ built.state.computer_action_args =
                          [x |-> 10, y |-> 20, button |-> "left"])

C5_Witness ==
    /\ built # NotBuilt /\ built.ok
    /\ response.output = <<ToolCall1, ClickCall, Reasoning1>>
    /\ built.state.next_action = "computer_call_output"

\* C6: in a state built from a completed response, the action name and the
\* action arguments are non-empty only when the next step is the computer
\* action.
C6_ActionOnlyForComputerStep ==
    (built # NotBuilt /\ built.ok) =>
        ((built.state.computer_action # "" \/ built.state.computer_action_args # <<>>)
            => built.state.next_action = "computer_call_output")

\* C7: continue_task on a computer-action state invokes the named backend
\* action with the captured arguments, then captures a screenshot (which shows
\* the effect of that action), then submits requests only; each request
\* carries one computer_call_output item with the call id of the state, that
\* screenshot, and the whole pending safety-check list as acknowledged.
C7_ComputerStepOrder ==
    (/\ op = "continue_task"
     /\ consumed # NoState
     /\ consumed.next_action = "computer_call_output"
     /\ outcome # "BackendError")
    => /\ Len(events) = 2 + attempt
       /\ events[1] = [kind |-> "action", name |-> consumed.computer_action,
                       args |-> consumed.computer_action_args]
       /\ events[2] = [kind |-> "screenshot",
                       image |-> <<consumed.computer_action,
                                   consumed.computer_action_args>>]
       /\ \A i \in 3..Len(events) :
             /\ events[i].kind = "request"
             /\ events[i].input =
                   <<[type |-> "computer_call_output",
                      call_id |-> consumed.call_id,
                      output |-> [type |-> "computer_screenshot",
                                  image_url |-> <<"data:image/png;base64,",
                                                  events[2].image>>],
                      acknowledged_safety_checks |-> consumed.pending_safety_checks]>>

C7_Witness ==
    /\ pc = "done" /\ op = "continue_task" /\ outcome = "ok"
    /\ consumed.next_action = "computer_call_output"
    /\ attempt = 2
    /\ events[3].input[1].acknowledged_safety_checks = <<"sc1", "sc2">>

\* the id of the last response a state was built from before the current call
C8_PriorId ==
    IF pc = "done" /\ outcome = "ok"
    THEN completed_ids[Len(completed_ids) - 1]
    ELSE completed_ids[Len(completed_ids)]

\* C8: every request of continue_task, retries included, carries as
\* continuation id the id of the response the consumed state was built from,
\* which is the last response a state was built from; a request of start_task
\* carries no continuation id.
C8_Continuation ==
    \A i \in 1..Len(events) :
        events[i].kind = "request" =>
            IF op = "start_task"
            THEN ~events[i].has_previous
            ELSE /\ events[i].has_previous
                 /\ events[i].previous_response_id = C8_PriorId

C8_Witness ==
    /\ pc = "retry" /\ op = "continue_task"
    /\ attempt = 2
    /\ completed_ids = <<1, 2>>
    /\ events[Len(events)].previous_response_id = 2


Abs(n) == IF n < 0 THEN -n ELSE n

\* the least integer not below a / b, for positive a and b
CeilDiv(a, b) == (a + b - 1) \div b

\* C9 as stated: mapping a point of the real screen into canvas space with the
\* capture-side scaling and back with the coordinate translation returns a
\* point within 1 unit of it on each axis, for every canvas and real size.
C9_WithinOne ==
    rt_out.computed =>
        \A i \in 1..2 : Abs(rt_out.back[i] - rt_in.point[i]) <= 1

\* C9, amended: the round trip never returns a larger coordinate and loses at
\* most ceil(1 / ratio) units on each axis, where 1 / ratio is the larger of
\* real width / canvas width and real height / canvas height; so it stays
\* within 1 unit when the real screen is at most as large as the canvas.
C9_RoundTripBound ==
    rt_out.computed =>
        LET loss == Max(CeilDiv(rt_in.real[1], rt_in.canvas[1]),
                        CeilDiv(rt_in.real[2], rt_in.canvas[2]))
        IN  \A i \in 1..2 :
               /\ rt_out.back[i] <= rt_in.point[i]
               /\ rt_in.point[i] - rt_out.back[i] <= loss
               /\ (rt_in.canvas[1] >= rt_in.real[1] /\ rt_in.canvas[2] >= rt_in.real[2]
                      => rt_in.point[i] - rt_out.back[i] <= 1)

C9_Witness ==
    /\ rt_out.computed
    /\ rt_in.canvas = <<1, 1>>
    /\ rt_in.real = <<3, 3>>
    /\ rt_in.point = <<2, 1>>
    /\ rt_out.logical = <<0, 0>>
    /\ rt_out.back = <<0, 0>>

\* C10: without explicit dimensions the canvas is the size (w, h) of the first
\* screenshot when max(w, h) <= 2048 and otherwise (trunc(w * 2048 / max(w, h)),
\* trunc(h * 2048 / max(w, h))), so its longer edge is at most 2048 and
\* (3840, 2160) gives (2048, 1152); no later operation changes it.
C10_CanvasDerivation ==
    given = NoDimensions =>
        LET w       == first_real[1]
            h       == first_real[2]
            longest == Max(w, h)
        IN  /\ dimensions = IF longest <= 2048 THEN <<w, h>>
                            ELSE <<(w * 2048) \div longest, (h * 2048) \div longest>>
            /\ Max(dimensions[1], dimensions[2]) <= 2048
            /\ (first_real = <<3840, 2160>> => dimensions = <<2048, 1152>>)

\* the methods of the Scaler that translate a position
C11_Positional == {"click", "double_click", "scroll", "move", "drag"}

\* C11: a click, double_click, scroll, move or drag made on the Scaler before
\* the first screenshot() has recorded the real screen size (screen_width is
\* still -1) delegates nothing to the backend.
C11_FailFast ==
    screen_width = -1 =>
        \A i \in 1..Len(delegated) : delegated[i].op \notin C11_Positional

\* C12: the recorded screen size is the size of the most recent screenshot
\* captured from the backend, the capture of the construction included.
C12_RecordedIsLastCapture ==
    captured # NoSize => <<screen_width, screen_height>> = captured

\* the quotient x / ratio in exact arithmetic, truncated, for x >= 0 and a
\* recorded screen: 1 / ratio is the larger of real width / canvas width and
\* real height / canvas height
C17_Exact(x) ==
    Max((x * screen_width) \div dimensions[1], (x * screen_height) \div dimensions[2])

\* the point (x, y) translated by the current ratio
C17_Translated(x, y, out) ==
    /\ out = PointToScreenCoords(x, y, dimensions, screen_width, screen_height)
    /\ (screen_width > 0 =>
            /\ out[1] \in {C17_Exact(x) - 1, C17_Exact(x)}
            /\ out[2] \in {C17_Exact(y) - 1, C17_Exact(y)})

\* what a call of an action method must have delegated
C17_Delegated(c, d) ==
    /\ d.op = c.name
    /\ CASE c.name \in {"click", "double_click", "scroll", "move"} ->
               /\ C17_Translated(c.args.x, c.args.y, <<d.x, d.y>>)
               /\ \A k \in (DOMAIN c.args) \ {"x", "y"} : d[k] = c.args[k]
               /\ DOMAIN d = {"op"} \cup DOMAIN c.args
         [] c.name = "drag" ->
               /\ c.args.path = [i \in 1..Len(DragCall.action.path) |->
                                    [x |-> DragCall.action.path[i].x,
                                     y |-> DragCall.action.path[i].y]]
               /\ Len(d.path) = Len(c.args.path)
               /\ \A i \in 1..Len(d.path) :
                     C17_Translated(c.args.path[i].x, c.args.path[i].y,
                                    <<d.path[i].x, d.path[i].y>>)
         [] c.name = "type" -> d = [op |-> "type", text |-> c.args.text]
         [] c.name = "keypress" -> d = [op |-> "keypress", keys |-> c.args.keys]
         [] c.name = "wait" ->
               d = [op |-> "wait",
                    ms |-> IF c.args = <<>> THEN 1000 ELSE c.args.ms]

\* C17: every action method of the Scaler makes exactly one call on the
\* backend, the call of the same name; click, double_click, scroll and move
\* pass their point translated by the current ratio and every other argument
\* as given; drag passes the points of the path a State holds for a drag call,
\* each translated, in the order of the path; type, wait and keypress pass
\* their arguments as given; no action method changes the recorded screen
\* size or the canvas.
C17_Delegation ==
    [][(called' # called \/ delegated' # delegated) =>
          /\ Len(called') = 1
          /\ Len(delegated') = 1
          /\ called'[1].name \in ScalerMethods
          /\ C17_Delegated(called'[1], delegated'[1])
          /\ UNCHANGED <<screen_width, screen_height, dimensions, captured>>]_vars

C17_Witness ==
    /\ Len(called) = 1
    /\ called[1].name = "drag"
    /\ dimensions = <<2048, 1152>>
    /\ <<screen_width, screen_height>> = <<3840, 2160>>
    /\ delegated = <<[op |-> "drag",
                      path |-> <<[x |-> 1, y |-> 3], [x |-> 5, y |-> 7],
                                 [x |-> 9, y |-> 11]>>]>>

\* the kinds of the events of the current call that are not requests
C13_Executed ==
    LET done == SelectSeq(events, LAMBDA e : e.kind # "request")
    IN  [i \in 1..Len(done) |-> done[i].kind]

\* the one input item of a request has the kind of the step
C13_ItemFor(step, item, call_id) ==
    CASE step = "computer_call_output" ->
            /\ "type" \in DOMAIN item
            /\ item.type = "computer_call_output"
            /\ item.call_id = call_id
            /\ C13_Executed = <<"action", "screenshot">>
      [] step = "function_call" ->
            /\ "type" \in DOMAIN item
            /\ item.type = "function_call_output"
            /\ item.call_id = call_id
            /\ C13_Executed = <<"tool">>
      [] OTHER ->
            /\ DOMAIN item = {"role", "content"}
            /\ item.role = "user"
            /\ item.content \in UserMessages
            /\ C13_Executed = <<>>

\* C13: every request of a continue_task call carries exactly one input item:
\* a computer_call_output iff the consumed state asks for a computer action, a
\* function_call_output iff it asks for a tool, a user-role message otherwise
\* (user_interaction or no next action); before the requests the call ran the
\* backend action and a screenshot, the tool executor, or nothing,
\* accordingly; a call output carries the call id of the state, which is the
\* call id of the last computer_call, message or function_call item of the
\* response the state was built from, and stays so until the state is consumed.
C13_OneInputOfTheStep ==
    /\ []((op = "continue_task" /\ consumed # NoState) =>
             \A i \in 1..Len(Requests) :
                /\ Len(Requests[i].input) = 1
                /\ C13_ItemFor(consumed.next_action, Requests[i].input[1],
                               consumed.call_id))
    /\ []((pc = "done" /\ outcome = "ok" /\ op \in {"start_task", "continue_task"}) =>
             LET o == last_response.output
                 i == C5_LastDifferentiating(o)
             IN  /\ state.next_action = IF i = 0 THEN "" ELSE C5_StepOf(o[i].type)
                 /\ (i # 0 /\ o[i].type # "message" => state.call_id = o[i].call_id))
    /\ [][(state # NoState /\ state' # NoState /\ completed_ids' = completed_ids) =>
             /\ state'.next_action = state.next_action
             /\ state'.call_id = state.call_id]_vars

C13_Witness ==
    /\ pc = "done" /\ op = "continue_task" /\ outcome = "ok"
    /\ consumed.next_action = "function_call"
    /\ consumed.computer_action = "drag"
    /\ consumed.call_id = "f1"
    /\ C13_Executed = <<"tool">>
    /\ Requests[1].input = <<[type |-> "function_call_output", call_id |-> "f1",
                              output |-> <<"json", [tool |-> "t1", func |-> 2,
                                                    args |-> [q |-> 2]]>>]>>

\* C14: in one continue_task call every attempt submits the same request (the
\* same single input item, continuation id and tool list); the backend
\* action, the screenshot and the tool executor run at most once each and
\* before the first request; a retry touches neither the backend nor the
\* Scaler nor the registry.
C14_SameRequest ==
    /\ [](op = "continue_task" =>
             /\ \A i, j \in 1..Len(Requests) : Requests[i] = Requests[j]
             /\ \A i, j \in 1..Len(events) :
                   (i < j /\ events[i].kind = "request") => events[j].kind = "request"
             /\ \A k \in {"action", "screenshot", "tool"} :
                   Cardinality({i \in 1..Len(events) : events[i].kind = k}) <= 1)
    /\ [][pc = "retry" =>
             /\ UNCHANGED <<screen, scalerVars, tools, next_input, previous_response_id,
                            consumed>>
             /\ Len(events') = Len(events) + 1
             /\ events'[Len(events')].kind = "request"
             /\ SubSeq(events', 1, Len(events)) = events]_vars

C14_Witness ==
    /\ pc = "done" /\ op = "continue_task" /\ outcome = "ok"
    /\ consumed.next_action = "computer_call_output"
    /\ attempt = 4
    /\ Len(events) = 6
    /\ events[1].kind = "action"
    /\ events[2].kind = "screenshot"
    /\ events[3] = events[6]

\* C15: with no state (before the first start_task, or after a continue_task
\* that exhausted its retries or met a protocol violation) continue_task and
\* every property read fail with AttributeError, issue no request and leave
\* the backend, the Scaler and the missing state as they are; a missing state
\* is replaced only by start_task or by the running continue_task itself.
C15_AbsentState ==
    /\ []((pc = "done" /\ op = "continue_task" /\ consumed = NoState) =>
             /\ outcome = "AttributeError"
             /\ state = NoState
             /\ events = <<>>
             /\ attempt = 0)
    /\ []((pc = "done" /\ op \in PropertyNames /\ state = NoState) =>
             /\ outcome = "AttributeError"
             /\ events = <<>>)
    /\ [][(pc = "idle" /\ state = NoState /\ op' \in {"continue_task"} \cup PropertyNames) =>
             UNCHANGED <<state, screen, scalerVars, next_id, completed_ids, tools>>]_vars
    /\ [][(state = NoState /\ state' # NoState) =>
             \/ op' = "start_task"
             \/ (op = "continue_task" /\ pc = "retry")]_vars

C15_Witness ==
    /\ pc = "done" /\ op = "continue_task" /\ outcome = "AttributeError"
    /\ state = NoState
    /\ completed_ids = <<1>>
    /\ next_id = 2
    /\ screen # <<"blank">>

\* the last content fragment's text of every message item, in item order
RECURSIVE C16_MessageText(_)
C16_MessageText(output) ==
    IF output = <<>> THEN <<>>
    ELSE LET n    == Len(output)
             last == output[n]
             rest == C16_MessageText(SubSeq(output, 1, n - 1))
         IN  IF last.type = "message"
             THEN rest \o last.content[Len(last.content)].text
             ELSE rest

\* the summary fragments of the last reasoning item, joined; empty without one
C16_ReasoningText(output) ==
    LET I == {i \in 1..Len(output) : output[i].type = "reasoning"}
    IN  IF I = {} THEN <<>>
        ELSE LET i   == CHOOSE k \in I : \A j \in I : j <= k
                 sum == output[i].summary
                 join[k \in 0..Len(sum)] ==
                     IF k = 0 THEN <<>> ELSE join[k - 1] \o sum[k].text
             IN  join[Len(sum)]

\* C16: in a state built from a completed response, message is the
\* concatenation, in item order, of the text of the last content fragment of
\* every message item, and reasoning_summary is the joined summary of the last
\* reasoning item alone, whatever the other items are and whichever of them
\* fixes the next step.
C16_AccumulateAndOverwrite ==
    (built # NotBuilt /\ built.ok) =>
        /\ built.state.message = C16_MessageText(response.output)
        /\ built.state.reasoning_summary = C16_ReasoningText(response.output)

C16_Witness ==
    /\ built # NotBuilt /\ built.ok
    /\ response.output = <<Reasoning1, Message1, Reasoning2, Message2>>
    /\ built.state.message = <<"m2", "m3">>
    /\ built.state.reasoning_summary = <<"r3">>

\* the registry after add_tool of an entry, from the registry before it
C18_After(before, after, name) ==
    IF \E i \in 1..Len(before) : before[i].name = name
    THEN /\ Len(after) = Len(before)
         /\ \A i \in 1..Len(before) :
               IF before[i].name = name
               THEN after[i].name = name
               ELSE after[i] = before[i]
    ELSE /\ Len(after) = Len(before) + 1
         /\ SubSeq(after, 1, Len(before)) = before
         /\ after[Len(after)].name = name

\* C18: the tool list of every request is the computer-use descriptor followed
\* by the descriptor of every registered tool, one per name, in the order of
\* the registry; the executor invoked for a name is the registered one;
\* add_tool of a new name appends it, add_tool of a registered name puts the
\* new descriptor and executor in the place of the old ones without an error;
\* no step removes a name or moves it, so the order is that of first
\* registration.
C18_Registry ==
    /\ [](/\ \A i, j \in 1..Len(tools) : tools[i].name = tools[j].name => i = j
          /\ \A k \in 1..Len(events) :
                /\ (events[k].kind = "request" =>
                       /\ Len(events[k].tools) = 1 + Len(tools)
                       /\ events[k].tools[1].type = "computer_use_preview"
                       /\ \A i \in 1..Len(tools) : events[k].tools[i + 1] = tools[i].tool)
                /\ (events[k].kind = "tool" =>
                       \E i \in 1..Len(tools) :
                          /\ tools[i].name = events[k].name
                          /\ tools[i].func = events[k].func)
          /\ (pc = "done" /\ op = "add_tool" =>
                /\ outcome = "ok"
                /\ \E i \in 1..Len(tools) :
                      /\ tools[i].name = events[1].name
                      /\ tools[i].tool = [name |-> events[1].name,
                                          version |-> events[1].version]
                      /\ tools[i].func = events[1].version))
    /\ [][/\ Len(tools') >= Len(tools)
          /\ \A i \in 1..Len(tools) : tools'[i].name = tools[i].name
          /\ (op' = "add_tool" /\ pc = "idle" => C18_After(tools, tools', events'[1].name))
          /\ (~(op' = "add_tool" /\ pc = "idle") => tools' = tools)]_vars

C18_Witness ==
    /\ pc = "done" /\ op = "add_tool"
    /\ events[1].replaced
    /\ tools = <<[name |-> "t1", tool |-> [name |-> "t1", version |-> 2], func |-> 2],
                 [name |-> "t2", tool |-> [name |-> "t2", version |-> 1], func |-> 1]>>

\* C19: a state is a function of the response it is built from and the class
\* defaults alone: whatever was processed before, a response without a
\* computer_call gives no action, no arguments and no pending safety checks,
\* one without reasoning no reasoning text, one without message no message,
\* one without a call item no call id, one without a computer_call, message
\* or function_call no next action; building it leaves the state consumed
\* before as it was.
C19_FreshState ==
    /\ []((pc = "done" /\ outcome = "ok" /\ op \in {"start_task", "continue_task"}) =>
             LET o      == last_response.output
                 has(t) == \E i \in 1..Len(o) : o[i].type = t
             IN  /\ state.previous_response_id = last_response.id
                 /\ (~has("computer_call") =>
                        /\ state.computer_action = ""
                        /\ state.computer_action_args = <<>>
                        /\ state.pending_safety_checks = <<>>)
                 /\ (~has("reasoning") => state.reasoning_summary = <<>>)
                 /\ (~has("message") => state.message = <<>>)
                 /\ (~has("computer_call") /\ ~has("function_call") => state.call_id = "")
                 /\ (~has("function_call") =>
                        state.tool_name = NoAttribute /\ state.tool_args = <<>>)
                 /\ (C5_LastDifferentiating(o) = 0 => state.next_action = "")
                 /\ state.message = C16_MessageText(o)
                 /\ state.reasoning_summary = C16_ReasoningText(o))
    /\ [][completed_ids' # completed_ids => consumed' = consumed]_vars

C19_Witness ==
    /\ pc = "done" /\ op = "continue_task" /\ outcome = "ok"
    /\ completed_ids = <<1, 2>>
    /\ consumed.pending_safety_checks = <<"sc1", "sc2">>
    /\ consumed.message = <<"m2">>
    /\ last_response.output = <<ToolCall1>>
    /\ state.pending_safety_checks = <<>>
    /\ state.computer_action_args = <<>>
    /\ state.message = <<>>

\* C20: a continue_task call that fails before submission (the backend action
\* raises, the tool executor raises, or the tool is unknown) issues no request
\* and leaves the agent with exactly the state it was called on.
C20_FailureLeavesState ==
    (pc = "done" /\ op = "continue_task"
        /\ outcome \in {"BackendError", "ToolError", "ValueError"}) =>
        /\ Requests = <<>>
        /\ state = consumed

====
